---- MODULE Spec2Model ----
(***************************************************************************)
(* Hydration / initialization engine of the page bootstrapper:             *)
(*   - loadDynamicImport, initializeModule, convertString (helpers/util)   *)
(*   - $map, domReady, domReadyPromise, parseVueProps     (helpers/dom)    *)
(*   - App.init, App.onPageLoad, App.initVueComponents, App.initComponents *)
(*                                                                         *)
(* JavaScript values are records tagged by the field t.  A value that can  *)
(* act as an initiator is V(c), c a chain of layers read from the outside  *)
(* in: "factory" is a plain function returning the rest of the chain,      *)
(* "promise" a promise fulfilled with the rest, "wrapper" an object whose  *)
(* `default` member is the rest.  A chain ends in a terminal:              *)
(*   "component"  a component options object without declared props       *)
(*   "typed"      a component options object with declared props           *)
(*   "module"     a constructor whose prototype is an instance of Module   *)
(*   "undefined"  the value undefined                                      *)
(*   "throw"      (after "factory" only) the function throws when invoked  *)
(*   "reject"     a promise that rejects                                   *)
(*   "pending"    a promise that never settles                             *)
(***************************************************************************)
EXTENDS Integers, Sequences, FiniteSets, TLC

\* ------------------------------------------------------------------ bounds
MaxDepth == 5
MaxResolves == 2

\* ------------------------------------------------------------ JS values
Layers == {"factory", "promise", "wrapper"}
Terminals == {"component", "typed", "module", "undefined", "throw", "reject", "pending"}

V(c) == [t |-> "val", c |-> c]
Undefined == V(<<"undefined">>)
Null == [t |-> "null"]

ValidChain(c) ==
    /\ Len(c) >= 1
    /\ c[Len(c)] \in Terminals
    /\ \A i \in 1..(Len(c) - 1) : c[i] \in Layers
    /\ c[Len(c)] = "throw" => (Len(c) >= 2 /\ c[Len(c) - 1] = "factory")

SeqsUpTo(S, n) == UNION {[1..k -> S] : k \in 0..n}

Chains == {c \in UNION {{p \o <<x>> : p \in SeqsUpTo(Layers, MaxDepth - 1)} : x \in Terminals} :
            ValidChain(c)}

IsVal(v) == v.t = "val"
\* typeof v === 'function' && !(v.prototype instanceof Module)
IsPlainFunction(v) == IsVal(v) /\ v.c[1] = "factory"
\* v && typeof v === 'object' && 'default' in v
HasDefault(v) == IsVal(v) /\ v.c[1] = "wrapper"
IsPromise(v) == IsVal(v) /\ v.c[1] \in {"promise", "reject", "pending"}
Rest(v) == V(Tail(v.c))
\* invoking the function v() throws
CallThrows(v) == v.c = <<"factory", "throw">>

\* the state a promise (or a plain value wrapped by Promise.resolve) ends in
RECURSIVE Settle(_)
Settle(v) ==
    IF ~IsVal(v) THEN [st |-> "fulfilled", v |-> v]
    ELSE IF v.c[1] = "promise" THEN Settle(Rest(v))
    ELSE IF v.c[1] = "reject" THEN [st |-> "rejected", v |-> v]
    ELSE IF v.c[1] = "pending" THEN [st |-> "pending", v |-> v]
    ELSE [st |-> "fulfilled", v |-> v]

\* --------------------------------------------------------------- callbacks
\* The post-resolution callbacks a caller passes to loadDynamicImport.
\* Each yields [threw, out].
NoCb == [k |-> "none"]
CbTransform == [k |-> "transform"]
CbThrows == [k |-> "throws"]
GenericCbs == {NoCb, CbTransform, CbThrows}

\* ------------------------------------------------------------ strings
\* A string is the sequence of its characters.  The operators below are
\* defined for strings over Chars: no whitespace, no backslash, no
\* exponent or Infinity after a sign (parseFloat, JSON numbers).
Digits == <<"0", "1", "2", "3", "4", "5", "6", "7", "8", "9">>
DigitSet == {Digits[i] : i \in 1..10}
IsDigit(ch) == ch \in DigitSet
DigitVal(ch) == (CHOOSE i \in 1..10 : Digits[i] = ch) - 1

Str(s) == [t |-> "string", s |-> s]
NaN == [t |-> "NaN"]
Bool(b) == [t |-> "boolean", b |-> b]

\* number of consecutive digits of s starting at position i
RECURSIVE DigitRun(_, _)
DigitRun(s, i) == IF i <= Len(s) /\ IsDigit(s[i]) THEN 1 + DigitRun(s, i + 1) ELSE 0

RECURSIVE ToInt(_)
ToInt(ds) == IF ds = <<>> THEN 0 ELSE 10 * ToInt(SubSeq(ds, 1, Len(ds) - 1)) + DigitVal(ds[Len(ds)])

RECURSIVE StripZeros(_)
StripZeros(ds) ==
    IF ds # <<>> /\ ds[Len(ds)] = "0" THEN StripZeros(SubSeq(ds, 1, Len(ds) - 1)) ELSE ds

\* the number  sign * (int.frac), kept as a mantissa and a decimal scale
Num(neg, int, frac) ==
    LET f == StripZeros(frac)
        m == ToInt(int \o f)
    IN [t |-> "number", num |-> IF neg THEN 0 - m ELSE m, scale |-> Len(f)]

\* parseFloat(str): the longest prefix that is a decimal literal, else NaN
ParseFloat(s) ==
    LET signed == Len(s) >= 1 /\ s[1] \in {"-", "+"}
        p == IF signed THEN 2 ELSE 1
        ni == DigitRun(s, p)
        dot == p + ni <= Len(s) /\ s[p + ni] = "."
        nf == IF dot THEN DigitRun(s, p + ni + 1) ELSE 0
    IN IF ni = 0 /\ nf = 0 THEN NaN
       ELSE Num(signed /\ s[1] = "-", SubSeq(s, p, p + ni - 1),
                SubSeq(s, p + ni + 1, p + ni + nf))

\* ---------------------------------------------------------- JSON.parse
\* Each parser yields [ok, v, n]: success, the value, the next position.
JFail == [ok |-> FALSE, v |-> Null, n |-> 0]
JOk(v, n) == [ok |-> TRUE, v |-> v, n |-> n]

StartsAt(s, i, w) == i + Len(w) - 1 <= Len(s) /\ SubSeq(s, i, i + Len(w) - 1) = w

\* number: -? (0 | [1-9][0-9]*) (. [0-9]+)?
JsonNumber(s, i) ==
    LET neg == i <= Len(s) /\ s[i] = "-"
        p == IF neg THEN i + 1 ELSE i
        ni == DigitRun(s, p)
        dot == p + ni <= Len(s) /\ s[p + ni] = "."
        nf == IF dot THEN DigitRun(s, p + ni + 1) ELSE 0
    IN IF ni = 0 \/ (ni > 1 /\ s[p] = "0") \/ (dot /\ nf = 0) THEN JFail
       ELSE JOk(Num(neg, SubSeq(s, p, p + ni - 1), SubSeq(s, p + ni + 1, p + ni + nf)),
                IF dot THEN p + ni + 1 + nf ELSE p + ni)

\* position of the closing quote of the string that opens at i
RECURSIVE CloseQuote(_, _)
CloseQuote(s, j) ==
    IF j > Len(s) THEN 0 ELSE IF s[j] = "\"" THEN j ELSE CloseQuote(s, j + 1)

JsonString(s, i) ==
    LET q == CloseQuote(s, i + 1)
    IN IF i <= Len(s) /\ s[i] = "\"" /\ q > 0 THEN JOk(Str(SubSeq(s, i + 1, q - 1)), q + 1)
       ELSE JFail

RECURSIVE JsonValue(_, _), JsonElems(_, _, _), JsonMembers(_, _, _, _)
JsonValue(s, i) ==
    IF i > Len(s) THEN JFail
    ELSE IF StartsAt(s, i, <<"t", "r", "u", "e">>) THEN JOk(Bool(TRUE), i + 4)
    ELSE IF StartsAt(s, i, <<"f", "a", "l", "s", "e">>) THEN JOk(Bool(FALSE), i + 5)
    ELSE IF StartsAt(s, i, <<"n", "u", "l", "l">>) THEN JOk(Null, i + 4)
    ELSE IF s[i] = "\"" THEN JsonString(s, i)
    ELSE IF s[i] = "[" THEN
        IF StartsAt(s, i, <<"[", "]">>) THEN JOk([t |-> "array", items |-> <<>>], i + 2)
        ELSE JsonElems(s, i + 1, <<>>)
    ELSE IF s[i] = "{" THEN
        IF StartsAt(s, i, <<"{", "}">>) THEN JOk([t |-> "object", keys |-> <<>>, vals |-> <<>>], i + 2)
        ELSE JsonMembers(s, i + 1, <<>>, <<>>)
    ELSE JsonNumber(s, i)

JsonElems(s, i, acc) ==
    LET e == JsonValue(s, i)
    IN IF ~e.ok \/ e.n > Len(s) THEN JFail
       ELSE IF s[e.n] = "]" THEN JOk([t |-> "array", items |-> Append(acc, e.v)], e.n + 1)
       ELSE IF s[e.n] = "," THEN JsonElems(s, e.n + 1, Append(acc, e.v))
       ELSE JFail

JsonMembers(s, i, ks, vs) ==
    LET k == JsonString(s, i)
        e == IF k.ok /\ k.n <= Len(s) /\ s[k.n] = ":" THEN JsonValue(s, k.n + 1) ELSE JFail
    IN IF ~e.ok \/ e.n > Len(s) THEN JFail
       ELSE IF s[e.n] = "}" THEN
            JOk([t |-> "object", keys |-> Append(ks, k.v.s), vals |-> Append(vs, e.v)], e.n + 1)
       ELSE IF s[e.n] = "," THEN JsonMembers(s, e.n + 1, Append(ks, k.v.s), Append(vs, e.v))
       ELSE JFail

\* JSON.parse(str): [ok, v]; ok = FALSE when JSON.parse throws
JsonParse(s) ==
    LET r == JsonValue(s, 1)
    IN IF r.ok /\ r.n = Len(s) + 1 THEN [ok |-> TRUE, v |-> r.v] ELSE [ok |-> FALSE, v |-> Null]

\* ------------------------------------------------------- parseISODate
At(s, i) == IF i \in 1..Len(s) THEN s[i] ELSE ""
TwoDigits(s, i) == IsDigit(At(s, i)) /\ IsDigit(At(s, i + 1))
TwoVal(s, i) == ToInt(SubSeq(s, i, i + 1))

IsLeap(y) == y % 4 = 0 /\ (y % 100 # 0 \/ y % 400 = 0)
DaysInMonth(y, m) ==
    IF m = 2 THEN (IF IsLeap(y) THEN 29 ELSE 28)
    ELSE IF m \in {4, 6, 9, 11} THEN 30 ELSE 31

\* the pattern after the year, matched piece by piece up to the end of the
\* string: -?MM-?DD(Thh:mm(:ss)?(.mmm)?(Z|(+|-)hh:mm)?)?$
SkipDash(s, j) == IF At(s, j) = "-" THEN j + 1 ELSE j
OkTwo(s, i, lo, hi) == TwoDigits(s, i) /\ TwoVal(s, i) \in lo..hi
TwoOrZero(s, i) == IF TwoDigits(s, i) THEN TwoVal(s, i) ELSE 0

\* (:ss)? at position j
DateSeconds(s, j) ==
    IF At(s, j) = ":" /\ OkTwo(s, j + 1, 0, 59)
    THEN [end |-> j + 3, sec |-> TwoVal(s, j + 1)]
    ELSE [end |-> j, sec |-> 0]

\* (.mmm)? at position j
DateMillis(s, j) ==
    IF At(s, j) = "." /\ DigitRun(s, j + 1) >= 3
    THEN [end |-> j + 4, ms |-> ToInt(SubSeq(s, j + 1, j + 3))]
    ELSE [end |-> j, ms |-> 0]

\* (Z|(+|-)hh:mm)? at position j
DateZone(s, j) ==
    IF At(s, j) = "Z" THEN [end |-> j + 1, tz |-> <<"Z">>]
    ELSE IF /\ At(s, j) \in {"+", "-"}
            /\ TwoDigits(s, j + 1) /\ At(s, j + 3) = ":" /\ TwoDigits(s, j + 4)
         THEN [end |-> j + 6, tz |-> SubSeq(s, j, j + 5)]
         ELSE [end |-> j, tz |-> <<"Z">>]

NoTime(ok) == [ok |-> ok, h |-> 0, mi |-> 0, sec |-> 0, ms |-> 0, tz |-> <<"Z">>]

TimeFields(s, j, sec, ms, z) ==
    IF z.end = Len(s) + 1
    THEN [ok |-> TRUE, h |-> TwoVal(s, j + 1), mi |-> TwoVal(s, j + 4),
          sec |-> sec.sec, ms |-> ms.ms, tz |-> z.tz]
    ELSE NoTime(FALSE)

TimeZoned(s, j, sec, ms) == TimeFields(s, j, sec, ms, DateZone(s, ms.end))
TimeSeconds(s, j, sec) == TimeZoned(s, j, sec, DateMillis(s, sec.end))

\* (Thh:mm...)?$ at position j
DateTime(s, j) ==
    IF j = Len(s) + 1 THEN NoTime(TRUE)
    ELSE IF /\ At(s, j) = "T"
            /\ OkTwo(s, j + 1, 0, 23) /\ At(s, j + 3) = ":" /\ OkTwo(s, j + 4, 0, 59)
         THEN TimeSeconds(s, j, DateSeconds(s, j + 6))
         ELSE NoTime(FALSE)

DateFields(s, j1, j3, t) ==
    [ok |-> OkTwo(s, j1, 1, 12) /\ OkTwo(s, j3, 1, 31) /\ t.ok,
     mo |-> TwoOrZero(s, j1), d |-> TwoOrZero(s, j3),
     h |-> t.h, mi |-> t.mi, sec |-> t.sec, ms |-> t.ms, tz |-> t.tz]

DateDay(s, j1, j3) == DateFields(s, j1, j3, DateTime(s, j3 + 2))
DateMonth(s, j1) == DateDay(s, j1, SkipDash(s, j1 + 2))
DateTail(s, j) == DateMonth(s, SkipDash(s, j))

\* the lengths the year group \d{4}|[+-]\d{6} ... can take so that the rest
\* of the string matches
YearLens(s, p) ==
    {k \in 4..DigitRun(s, p) : (k > 4 => s[p] # "0") /\ DateTail(s, p + k).ok}

Longest(ks) == CHOOSE x \in ks : \A y \in ks : y <= x

DateOf(neg, k, y, r) ==
    IF neg \/ k # 4 \/ r.d > DaysInMonth(y, r.mo) THEN Null
    ELSE [t |-> "date", y |-> y, mo |-> r.mo, d |-> r.d, h |-> r.h, mi |-> r.mi,
          sec |-> r.sec, ms |-> r.ms, tz |-> r.tz]

DateWithYear(s, p, k) ==
    DateOf(p = 2, k, ToInt(SubSeq(s, p, p + k - 1)), DateTail(s, p + k))

DateFrom(s, p, ks) == IF ks = {} THEN Null ELSE DateWithYear(s, p, Longest(ks))

\* parseISODate(dateString): a Date, or null when the pattern does not match
\* or the assembled string is not a valid date.  A year that is signed or
\* longer than four digits, or a day past the end of its month, is outside
\* the ECMAScript date-time format; new Date() is then implementation
\* defined and the inputs drawn below avoid it (taken as invalid here).
ParseISODate(s) ==
    IF s = <<>> THEN Null
    ELSE IF At(s, 1) = "-" THEN DateFrom(s, 2, YearLens(s, 2))
         ELSE DateFrom(s, 1, YearLens(s, 1))

\* ------------------------------------------------------ convertString
\* Candidate types are the constructors Number, Date, Boolean, Array,
\* Object, String, Function; "TypeList" stands for an array of
\* constructors found where a single constructor is expected.
TypeTags == {"Number", "Date", "Boolean", "Array", "Object", "String", "Function"}

\* value instanceof type, for the values the engine produces (primitives
\* are an instance of nothing)
InstanceOf(v, type) ==
    CASE type = "Date" -> v.t = "date"
      [] type = "Array" -> v.t = "array"
      [] type = "Object" -> v.t \in {"array", "object", "date"}
      [] OTHER -> FALSE

\* try { output = JSON.parse(str) } catch (e) {}
Decoded(parsed, output) == IF parsed.ok THEN parsed.v ELSE output

\* the body of the switch: the value of output after one candidate
Candidate(str, type, output) ==
    CASE type = "Number" -> ParseFloat(str)
      [] type = "Date" -> ParseISODate(str)
      [] type \in {"Boolean", "Array", "Object"} -> Decoded(JsonParse(str), output)
      [] OTHER -> Str(str)

\* the for loop from index i on: [threw, v, tried]
RECURSIVE ConvertLoop(_, _, _, _)
\* the test that ends iteration i, output being the candidate's value
ConvertTest(str, types, i, output) ==
    IF types[i] = "TypeList" THEN [threw |-> TRUE, v |-> output, tried |-> i]
    ELSE IF InstanceOf(output, types[i]) THEN [threw |-> FALSE, v |-> output, tried |-> i]
    ELSE ConvertLoop(str, types, i + 1, output)

ConvertLoop(str, types, i, output) ==
    IF i > Len(types) THEN [threw |-> FALSE, v |-> output, tried |-> i - 1]
    ELSE ConvertTest(str, types, i, Candidate(str, types[i], output))

\* requestedTypes is [arr, items]: arr = FALSE when it is not an array
NoTypes == [arr |-> FALSE, items |-> <<>>]
TypeArr(ts) == [arr |-> TRUE, items |-> ts]

convertString(str, requestedTypes) ==
    IF ~requestedTypes.arr \/ Len(requestedTypes.items) = 0
    THEN [threw |-> FALSE, v |-> Null, tried |-> 0]
    ELSE ConvertLoop(str, requestedTypes.items, 1, Undefined)

\* ------------------------------------------------------ parseVueProps
\* A prop declaration: a constructor PFn(type), an array of constructors
\* PArr(types), an object PObj(type) with type a constructor, "TypeList"
\* or "none" (no type field), null PNull, or a prop name PName (the entry
\* of an array-form props declaration).
PFn(type) == [k |-> "fn", type |-> type, types |-> <<>>]
PArr(types) == [k |-> "arr", type |-> "none", types |-> types]
PObj(type) == [k |-> "obj", type |-> type, types |-> <<>>]
PNull == [k |-> "null", type |-> "none", types |-> <<>>]
PName == [k |-> "name", type |-> "none", types |-> <<>>]

RequestedTypes(propDef) ==
    IF propDef.k = "fn" THEN TypeArr(<<propDef.type>>)
    ELSE IF propDef.k = "arr" /\ Len(propDef.types) > 0 THEN TypeArr(propDef.types)
    ELSE IF propDef.k = "obj" /\ propDef.type # "none" THEN TypeArr(<<propDef.type>>)
    ELSE NoTypes

\* props?.[key] is truthy
HasProp(props, key) == key \in DOMAIN props /\ props[key] # <<>>

\* propDefs is the sequence Object.entries(propDefs) of <<key, propDef>>;
\* yields [threw, v] with v the output mapping
RECURSIVE VuePropEntries(_, _, _, _)
\* [key, convertString(...)] joins the output unless the conversion threw
VuePropEntry(propDefs, props, i, acc, key, converted) ==
    IF converted.threw THEN [threw |-> TRUE, v |-> acc]
    ELSE VuePropEntries(propDefs, props, i + 1,
            [x \in DOMAIN acc \cup {key} |-> IF x = key THEN converted.v ELSE acc[x]])

VuePropEntries(propDefs, props, i, acc) ==
    IF i > Len(propDefs) THEN [threw |-> FALSE, v |-> acc]
    ELSE IF ~HasProp(props, propDefs[i][1]) THEN VuePropEntries(propDefs, props, i + 1, acc)
    ELSE VuePropEntry(propDefs, props, i, acc, propDefs[i][1],
            convertString(props[propDefs[i][1]], RequestedTypes(propDefs[i][2])))

EmptyMap == [x \in {} |-> Null]

\* parseVueProps that drops the entries whose conversion produced nothing
OmitFailed(r) ==
    [threw |-> r.threw,
     v |-> [k \in {x \in DOMAIN r.v : r.v[x].t \notin {"null", "NaN"} /\ r.v[x] # Undefined}
              |-> r.v[k]]]

parseVuePropsOmitFailed(propDefs, props) ==
    OmitFailed(VuePropEntries(propDefs, props, 1, EmptyMap))

parseVueProps(propDefs, props) == VuePropEntries(propDefs, props, 1, EmptyMap)

\* ---------------------------------------------------------- getDataset
\* A key, a prefix and a raw value are sequences of characters.  The source
\* is [t |-> "object", entries |-> Object.entries(dataset)] for an element
\* or an object, [t |-> "other"] for any other argument.
UpperCase == <<"A", "B", "C", "D", "E", "F", "G", "H", "I", "J", "K", "L", "M",
               "N", "O", "P", "Q", "R", "S", "T", "U", "V", "W", "X", "Y", "Z">>
LowerCase == <<"a", "b", "c", "d", "e", "f", "g", "h", "i", "j", "k", "l", "m",
               "n", "o", "p", "q", "r", "s", "t", "u", "v", "w", "x", "y", "z">>

\* ch.toLowerCase()
toLowerCase(ch) ==
    IF \E i \in 1..Len(UpperCase) : UpperCase[i] = ch
    THEN LowerCase[CHOOSE i \in 1..Len(UpperCase) : UpperCase[i] = ch]
    ELSE ch

\* new RegExp(`^${prefix}`): the prefix is read as a pattern.  Of the
\* pattern syntax the model has the wildcard "." and the group opener "(",
\* which without its closer is a SyntaxError; any other character stands
\* for itself.
RegExpThrows(prefix) ==
    /\ \E i \in 1..Len(prefix) : prefix[i] = "("
    /\ ~\E i \in 1..Len(prefix) : prefix[i] = ")"

\* regex.test(key)
RegexTest(prefix, key) ==
    /\ Len(key) >= Len(prefix)
    /\ \A i \in 1..Len(prefix) : prefix[i] = "." \/ prefix[i] = key[i]

\* key.replace(regex, '') for a key the pattern matches
RegexStrip(prefix, key) == SubSeq(key, Len(prefix) + 1, Len(key))

\* key.charAt(0).toLowerCase() + key.substring(1)
LowerFirst(key) == IF key = <<>> THEN <<>> ELSE <<toLowerCase(key[1])>> \o Tail(key)

\* try { val = JSON.parse(value) } catch (e) { val = value }
JsonOrRaw(parsed, value) == IF parsed.ok THEN parsed.v ELSE Str(value)

\* output[key] = val
SetOutput(output, key, val) ==
    [k \in DOMAIN output \cup {key} |-> IF k = key THEN val ELSE output[k]]

\* the forEach over Object.entries(dataset) from entry i on: [threw, v]
RECURSIVE DatasetEntries(_, _, _, _)
\* if (valid && key) { ... }
DatasetEntry(entries, prefix, i, output, key) ==
    IF key = <<>> THEN DatasetEntries(entries, prefix, i + 1, output)
    ELSE DatasetEntries(entries, prefix, i + 1,
            SetOutput(output, key, JsonOrRaw(JsonParse(entries[i][2]), entries[i][2])))

DatasetEntries(entries, prefix, i, output) ==
    IF i > Len(entries) THEN [threw |-> FALSE, v |-> output]
    ELSE IF prefix = <<>> THEN DatasetEntry(entries, prefix, i, output, entries[i][1])
    ELSE IF RegExpThrows(prefix) THEN [threw |-> TRUE, v |-> output]
    ELSE IF RegexTest(prefix, entries[i][1])
         THEN DatasetEntry(entries, prefix, i, output,
                           LowerFirst(RegexStrip(prefix, entries[i][1])))
         ELSE DatasetEntries(entries, prefix, i + 1, output)

getDataset(obj, prefix) ==
    IF obj.t = "object" THEN DatasetEntries(obj.entries, prefix, 1, EmptyMap)
    ELSE [threw |-> FALSE, v |-> EmptyMap]

\* ------------------------------------------------- mounting callbacks
\* The declared props of the component "typed" (Object.entries order).
TypedPropDefs ==
    << <<"title", PFn("String")>>, <<"count", PFn("Number")>>, <<"date", PObj("Date")>> >>

VueCb(el, props) == [k |-> "vue", el |-> el, props |-> props]
ModuleCb(el, init) == [k |-> "module", el |-> el, init |-> init]

IsNullish(v) == v = Undefined \/ v = Null

\* VueMount whose arrow function lacks the return
VueMountNoReturn(cb, Component) ==
    IF IsNullish(Component) THEN [threw |-> TRUE, out |-> Undefined]
    ELSE [threw |-> FALSE, out |-> Undefined]

\* the callback App.initVueComponent passes: (Component) => new Vue(...)
\* new Vue({ el, render: (h) => h(Component, { props }) })
NewVue(el, Component, props) ==
    IF props.threw THEN [threw |-> TRUE, out |-> Undefined]
    ELSE [threw |-> FALSE,
          out |-> [t |-> "vue", el |-> el, comp |-> Component, props |-> props.v]]

VueMount(cb, Component) ==
    IF IsNullish(Component) THEN [threw |-> TRUE, out |-> Undefined]
    ELSE IF Component = V(<<"typed">>)
         THEN NewVue(cb.el, Component, parseVueProps(TypedPropDefs, cb.props))
         ELSE NewVue(cb.el, Component, [threw |-> FALSE, v |-> cb.props])

\* the callback initializeModule passes: (Include) => new Include(app, el).
\* Only a Module subclass can be constructed; `new` on an object or on an
\* arrow function throws.  inits counts the calls of include.init().
ModuleMount(cb, Include) ==
    IF IsNullish(Include) THEN [threw |-> FALSE, out |-> Null]
    ELSE IF Include = V(<<"module">>) THEN
        [threw |-> FALSE,
         out |-> [t |-> "module", el |-> cb.el, inits |-> IF cb.init THEN 1 ELSE 0]]
    ELSE [threw |-> TRUE, out |-> Undefined]

\* cb(result): [threw, out]
ApplyCb(cb, v) ==
    CASE cb.k = "vue" -> VueMount(cb, v)
      [] cb.k = "module" -> ModuleMount(cb, v)
      [] cb.k = "transform" -> [threw |-> FALSE, out |-> [t |-> "out", of |-> v]]
      [] cb.k = "throws" -> [threw |-> TRUE, out |-> Undefined]
      [] OTHER -> [threw |-> FALSE, out |-> v]

\* -------------------------------------------------- loadDynamicImport
\* One call is a frame [pc, awaiting, result, cb, log, err]:
\*   pc        "await1" / "await2": suspended at the first / second await
\*             "resolved" / "rejected" / "pending": state of the returned promise
\*   awaiting  the value handed to Promise.resolve at the await
\*   result    the local variable result; once settled, the value resolved to
\*   log       the factory invocations, default unwraps and callback calls
\*   err       "none", "caught" (the catch block ran and logged) or
\*             "uncaught" (an error was raised outside the try block)
Frame(pc, awaiting, result, cb, log, err) ==
    [pc |-> pc, awaiting |-> awaiting, result |-> result, cb |-> cb, log |-> log, err |-> err]

IdleFrame == Frame("idle", Undefined, Undefined, NoCb, <<>>, "none")

\* `return result` of the async function: the returned promise follows result
Returned(f, s, log, err) ==
    Frame(CASE s.st = "fulfilled" -> "resolved"
            [] s.st = "rejected" -> "rejected"
            [] OTHER -> "pending",
          Undefined, IF s.st = "fulfilled" THEN s.v ELSE Undefined, f.cb, log, err)

Return(f, result, log, err) == Returned(f, Settle(result), log, err)

\* the synchronous part of the call, up to the first await (lines 91-98)
LdiCall(initiator, cb) ==
    IF IsPlainFunction(initiator)
    THEN IF CallThrows(initiator)
         THEN Frame("rejected", Undefined, Undefined, cb, <<"invoke">>, "uncaught")
         ELSE Frame("await1", Rest(initiator), Undefined, cb, <<"invoke">>, "none")
    ELSE Frame("await1", initiator, Undefined, cb, <<>>, "none")

CanResume(f) == f.pc \in {"await1", "await2"} /\ Settle(f.awaiting).st # "pending"

\* lines 104-109: a function obtained from the first await is invoked
LdiInvoke(f, result, log) ==
    IF IsPlainFunction(result)
    THEN IF CallThrows(result) THEN Return(f, result, Append(log, "invoke"), "caught")
         ELSE Frame("await2", Rest(result), Rest(result), f.cb, Append(log, "invoke"), "none")
    ELSE Frame("await2", result, result, f.cb, log, "none")

\* LdiUnwrap without the `'default' in result` test: every object is taken
\* for a module wrapper
LdiUnwrapAnyObject(f, s) ==
    IF s.st = "rejected" THEN Return(f, Undefined, f.log, "caught")
    ELSE IF HasDefault(s.v) THEN LdiInvoke(f, Rest(s.v), Append(f.log, "unwrap"))
    ELSE IF IsVal(s.v) /\ s.v.c[1] \in {"component", "typed"}
         THEN LdiInvoke(f, Undefined, Append(f.log, "unwrap"))
    ELSE LdiInvoke(f, s.v, f.log)

\* lines 98-103: s is the outcome of the first await
LdiUnwrap(f, s) ==
    IF s.st = "rejected" THEN Return(f, Undefined, f.log, "caught")
    ELSE IF HasDefault(s.v) THEN LdiInvoke(f, Rest(s.v), Append(f.log, "unwrap"))
    ELSE LdiInvoke(f, s.v, f.log)

\* resumption after the first await, up to the second (lines 98-109)
LdiAfterFirst(f) == LdiUnwrap(f, Settle(f.awaiting))

\* lines 111-113: a is the outcome of cb(result)
LdiCallback(f, result, a) ==
    IF a.threw THEN Return(f, result, Append(f.log, "cb"), "caught")
    ELSE Return(f, a.out, Append(f.log, "cb"), "none")

\* LdiSettle that keeps invoking: a function obtained from the second await
\* is called and awaited again
LdiSettleLoop(f, s) ==
    IF s.st = "rejected" THEN Return(f, f.result, f.log, "caught")
    ELSE IF IsPlainFunction(s.v) /\ ~CallThrows(s.v)
         THEN Frame("await2", Rest(s.v), Rest(s.v), f.cb, Append(f.log, "invoke"), "none")
    ELSE IF f.cb.k = "none" THEN Return(f, s.v, f.log, "none")
    ELSE LdiCallback(f, s.v, ApplyCb(f.cb, s.v))

\* lines 109-118: s is the outcome of the second await
LdiSettle(f, s) ==
    IF s.st = "rejected" THEN Return(f, f.result, f.log, "caught")
    ELSE IF f.cb.k = "none" THEN Return(f, s.v, f.log, "none")
    ELSE LdiCallback(f, s.v, ApplyCb(f.cb, s.v))

\* resumption after the second await, up to the return (lines 109-118)
LdiAfterSecond(f) == LdiSettle(f, Settle(f.awaiting))

LdiResume(f) == IF f.pc = "await1" THEN LdiAfterFirst(f) ELSE LdiAfterSecond(f)

Settled(f) == f.pc \in {"resolved", "rejected"}

\* loadDynamicImport(initiator, cb): the call and its first suspension
loadDynamicImport(initiator, cb) == LdiCall(initiator, cb)

\* initializeModule that takes only the boolean true for a set flag
initializeModuleStrict(initiator, el, init) ==
    loadDynamicImport(initiator, ModuleCb(el, init = "true"))

\* initializeModule(initiator, app, el, init); init is "true", "false" or
\* "absent" (not a boolean), defaulting to true
initializeModule(initiator, el, init) == loadDynamicImport(initiator, ModuleCb(el, init # "false"))

\* ------------------------------------------------ loadJSFile / loadCssFile
\* A url argument is a string; NoUrl stands for an argument that is no
\* string, ProtoKey for the string naming Object.prototype's accessor: the
\* assignment loadedJSFiles['__proto__'] = p replaces the prototype of
\* loadedJSFiles and creates no own property.
NoUrl == "<undefined>"
ProtoKey == "__proto__"

\* url && typeof url === 'string'
UrlOk(url) == url # "" /\ url # NoUrl

\* The loader's state:
\*   js        the own properties of loadedJSFiles: url -> promise
\*   jsProto   the promise made prototype of loadedJSFiles, 0 while it is
\*             Object.prototype
\*   scripts   the script tags inserted; promise i is the one created along
\*             with scripts[i] and follows its load / error event
\*   css       loadedCSSFiles
\*   links     the stylesheet links inserted
\*   headEmpty document.head has no child node
\*   calls     the calls made so far, each with the promise it returned
LoaderIdle(headEmpty) ==
    [js |-> EmptyMap, jsProto |-> 0, scripts |-> <<>>, css |-> <<>>, links |-> <<>>,
     headEmpty |-> headEmpty, calls |-> <<>>]

\* the promise created along with script tag p
ScriptPromise(p) == [k |-> "script", p |-> p, st |-> "pending"]
\* a promise created by the call itself: Promise.resolve(), or a promise
\* whose executor threw
Fresh(st) == [k |-> "fresh", p |-> 0, st |-> st]

Called(l, fn, url, ret) ==
    [l EXCEPT !.calls = Append(@, [fn |-> fn, url |-> url, ret |-> ret])]

\* Object.keys(loadedJSFiles).includes(url)
JsCached(l, url) == url \in DOMAIN l.js

\* loadedJSFiles[url] = p
SetJs(l, url, p) ==
    IF url = ProtoKey THEN [l EXCEPT !.jsProto = p]
    ELSE [l EXCEPT !.js = [u \in DOMAIN l.js \cup {url} |-> IF u = url THEN p ELSE l.js[u]]]

\* loadedJSFiles[url]
GetJs(l, url) == IF url = ProtoKey THEN l.jsProto ELSE l.js[url]

\* the executor of the new promise: the script tag is inserted before the
\* first script tag of the document (the tag of the running bundle)
InsertScript(l, url, async) ==
    [l EXCEPT !.scripts = Append(@, [url |-> url, async |-> async, state |-> "loading"])]

\* return loadedJSFiles[url]
ReturnJs(l, url) == Called(l, "js", url, ScriptPromise(GetJs(l, url)))

loadJSFile(l, url, async) ==
    IF UrlOk(url)
    THEN IF JsCached(l, url) THEN ReturnJs(l, url)
         ELSE ReturnJs(SetJs(InsertScript(l, url, async), url, Len(l.scripts) + 1), url)
    ELSE Called(l, "js", url, Fresh("resolved"))

\* loadedCSSFiles.indexOf(url) >= 0
CssCached(l, url) == \E i \in 1..Len(l.css) : l.css[i] = url

\* the executor of loadCssFile's promise: with no child node in the head,
\* childNodes[-1].nextSibling throws and the promise is rejected
loadCssFile(l, url) ==
    IF UrlOk(url) /\ ~CssCached(l, url)
    THEN IF l.headEmpty THEN Called(l, "css", url, Fresh("rejected"))
         ELSE Called([l EXCEPT !.links = Append(@, url), !.css = Append(@, url)],
                     "css", url, Fresh("resolved"))
    ELSE Called(l, "css", url, Fresh("resolved"))

\* the load / error listener of script tag i: resolve(true) / resolve(false)
ScriptEvent(l, i, state) == [l EXCEPT !.scripts[i].state = state]

\* Signal with an error listener that rejects the promise
SignalErrorRejects(l, ret) ==
    IF ret.k = "fresh" THEN [st |-> ret.st, v |-> "undefined"]
    ELSE CASE l.scripts[ret.p].state = "loaded" -> [st |-> "resolved", v |-> "true"]
           [] l.scripts[ret.p].state = "failed" -> [st |-> "rejected", v |-> "undefined"]
           [] OTHER -> [st |-> "pending", v |-> "undefined"]

\* the state of a returned promise: [st, v]
Signal(l, ret) ==
    IF ret.k = "fresh" THEN [st |-> ret.st, v |-> "undefined"]
    ELSE CASE l.scripts[ret.p].state = "loaded" -> [st |-> "resolved", v |-> "true"]
           [] l.scripts[ret.p].state = "failed" -> [st |-> "resolved", v |-> "false"]
           [] OTHER -> [st |-> "pending", v |-> "undefined"]

\* -------------------------------------------------------------- Module
\* The elements of a page a module looks up, in document order, each with
\* its parent (0: none) and its class.
PageNodes ==
    << [parent |-> 0, cls |-> "list"],
       [parent |-> 1, cls |-> "item"],
       [parent |-> 1, cls |-> "item"],
       [parent |-> 3, cls |-> "title"],
       [parent |-> 0, cls |-> "title"],
       [parent |-> 0, cls |-> "item"] >>

\* n lies in the subtree below el; every element lies in the document (0)
RECURSIVE Inside(_, _)
Inside(n, el) ==
    \/ el = 0
    \/ /\ PageNodes[n].parent # 0
       /\ (PageNodes[n].parent = el \/ Inside(PageNodes[n].parent, el))

RECURSIVE MatchesFrom(_, _, _)
MatchesFrom(el, selector, n) ==
    IF n > Len(PageNodes) THEN <<>>
    ELSE IF PageNodes[n].cls = selector /\ Inside(n, el)
         THEN <<n>> \o MatchesFrom(el, selector, n + 1)
         ELSE MatchesFrom(el, selector, n + 1)

\* (this.$el || document).querySelectorAll(selector)
querySelectorAll(el, selector) == MatchesFrom(el, selector, 1)

Element(n) == [t |-> "element", n |-> n, items |-> <<>>]
ArrayFrom(result) == [t |-> "array", n |-> 0, items |-> result]

\* new Module(app, $el): $el = 0 when none is given.  cache is $cache as
\* the subclass declares it, elements is $elements; n counts the calls made
\* on the instance, last is the call made last and again tells that the
\* last call was init() straight after another init().
NoCall == [fn |-> "none", key |-> "", selector |-> "", keepArray |-> FALSE]
Module(el, cache) ==
    [el |-> el, cache |-> cache, elements |-> EmptyMap, n |-> 0, last |-> NoCall,
     again |-> FALSE]

\* StoreElement that adds the matches to an array already stored
StoreElementPush(m, key, value) ==
    IF key \in DOMAIN m.elements /\ m.elements[key].t = "array" /\ value.t = "array"
    THEN [m EXCEPT !.elements[key].items = @ \o value.items]
    ELSE [m EXCEPT !.elements = [k \in DOMAIN m.elements \cup {key} |->
                                    IF k = key THEN value ELSE m.elements[k]]]

\* this.$elements[key] = value
StoreElement(m, key, value) ==
    [m EXCEPT !.elements = [k \in DOMAIN m.elements \cup {key} |->
                               IF k = key THEN value ELSE m.elements[k]]]

\* Cached that stores an array whatever the number of matches
CachedAlwaysArray(m, key, result, keepArray) ==
    IF Len(result) > 0 THEN StoreElement(m, key, ArrayFrom(result)) ELSE m

\* if ($result && $result.length > 0) { ... }
Cached(m, key, result, keepArray) ==
    IF Len(result) > 0
    THEN IF ~keepArray /\ Len(result) = 1 THEN StoreElement(m, key, Element(result[1]))
         ELSE StoreElement(m, key, ArrayFrom(result))
    ELSE m

\* addToCache(key, selector, keepArray); an omitted keepArray is FALSE
addToCache(m, key, selector, keepArray) ==
    Cached(m, key, querySelectorAll(m.el, selector), keepArray)

\* Object.entries(this.$cache).forEach(...) from entry i on
RECURSIVE CacheEntries(_, _)
CacheEntries(m, i) ==
    IF i > Len(m.cache) THEN m
    ELSE CacheEntries(addToCache(m, m.cache[i][1], m.cache[i][2], FALSE), i + 1)

initCache(m) == CacheEntries(m, 1)

\* Module.init()
ModuleInit(m) == initCache(m)

\* =================================================================== state
VARIABLES
    ldi,            \* a direct call of loadDynamicImport and its re-resolution
    coerce,         \* a call of convertString or parseVueProps
    readyState,     \* document.readyState
    dclFired,       \* DOMContentLoaded has been dispatched
    dclListener,    \* a DOMContentLoaded listener is registered (domReady)
    readyPromise,   \* promise of domReadyPromise(): "none", "pending", "resolved"
    appPc,          \* position of App.init
    dependencies,   \* this.dependencies
    dom,            \* the marker elements of the document, in document order
    scans,          \* the calls of initVueComponents / initComponents
    vueComponents,  \* this.vueComponents (undefined is kept as the empty list)
    components,     \* this.components    (undefined is kept as the empty list)
    jobs,           \* the microtask queue: promise reactions ready to run
    inTask,         \* the synchronous code of a caller's task is running
    loader,         \* loadedJSFiles, loadedCSSFiles and the tags inserted
    mod             \* a Module instance and its element-lookup cache

ldiVars == <<ldi>>
coerceVars == <<coerce>>
docVars == <<readyState, dclFired, dclListener, readyPromise>>
appVars == <<appPc, dependencies, dom, scans, vueComponents, components, jobs, inTask>>
libVars == <<loader, mod>>
vars == <<ldi, coerce, readyState, dclFired, dclListener, readyPromise,
          appPc, dependencies, dom, scans, vueComponents, components, jobs, inTask,
          loader, mod>>

\* the application before App.init, on a document without marker elements
NoDependencies == [installed |-> FALSE, vueComponents |-> <<>>, components |-> <<>>]

DocQuiet ==
    /\ readyState = "loading"
    /\ dclFired = FALSE
    /\ dclListener = FALSE
    /\ readyPromise = "none"

AppQuiet ==
    /\ appPc = "new"
    /\ dependencies = NoDependencies
    /\ dom = <<>>
    /\ scans = <<>>
    /\ vueComponents = <<>>
    /\ components = <<>>
    /\ jobs = <<>>
    /\ inTask = FALSE

CoerceIdle ==
    [fn |-> "idle", str |-> <<>>, types |-> NoTypes, propDefs |-> <<>>, props |-> <<>>,
     comp |-> Undefined, obj |-> Undefined, done |-> FALSE, threw |-> FALSE, out |-> Null, tried |-> 0]

LdiIdle ==
    [first |-> Undefined, init |-> Undefined, gen |-> 0, flag |-> "absent", f |-> IdleFrame]

\* no loader call made, no module constructed
LibQuiet ==
    /\ loader = LoaderIdle(FALSE)
    /\ mod = Module(0, <<>>)

\* ===================================== direct calls of loadDynamicImport
InitLDI ==
    /\ \E c \in Chains, cb \in GenericCbs :
          ldi = [first |-> V(c), init |-> V(c), gen |-> 1, flag |-> "absent",
                 f |-> [IdleFrame EXCEPT !.cb = cb]]
    /\ coerce = CoerceIdle
    /\ DocQuiet
    /\ AppQuiet
    /\ LibQuiet

\* the caller invokes loadDynamicImport(init, cb)
LdiStart ==
    /\ ldi.f.pc = "idle"
    /\ ldi' = [ldi EXCEPT !.f = loadDynamicImport(ldi.init, ldi.f.cb)]
    /\ UNCHANGED <<coerce, docVars, libVars, appVars>>

\* the event loop resumes the call after an await
LdiStep ==
    /\ CanResume(ldi.f)
    /\ ldi' = [ldi EXCEPT !.f = LdiResume(ldi.f)]
    /\ UNCHANGED <<coerce, docVars, libVars, appVars>>

\* the caller resolves the value it obtained once more
LdiAgain ==
    /\ ldi.f.pc = "resolved"
    /\ ldi.gen < MaxResolves
    /\ ldi' = [ldi EXCEPT !.init = ldi.f.result, !.gen = ldi.gen + 1,
                          !.f = [IdleFrame EXCEPT !.cb = ldi.f.cb]]
    /\ UNCHANGED <<coerce, docVars, libVars, appVars>>

NextLDI == LdiStart \/ LdiStep \/ LdiAgain

SpecLDI == InitLDI /\ [][NextLDI]_vars

\* the event loop runs every continuation that is ready
FairSpecLDI == SpecLDI /\ WF_vars(LdiStep) /\ WF_vars(LdiStart)

\* ======================================= direct calls of initializeModule
\* the init argument: the booleans and a value that is no boolean
InitFlags == {"true", "false", "absent"}

InitModuleCalls ==
    /\ \E c \in Chains, flag \in InitFlags :
          ldi = [LdiIdle EXCEPT !.first = V(c), !.init = V(c), !.gen = 1, !.flag = flag]
    /\ coerce = CoerceIdle
    /\ DocQuiet
    /\ AppQuiet
    /\ LibQuiet

\* the caller invokes initializeModule(init, app, el, flag) for an element
InitModuleStart ==
    /\ ldi.f.pc = "idle"
    /\ \E el \in 1..2 : ldi' = [ldi EXCEPT !.f = initializeModule(ldi.init, el, ldi.flag)]
    /\ UNCHANGED <<coerce, docVars, libVars, appVars>>

NextInitModule == InitModuleStart \/ LdiStep

SpecInitModule == InitModuleCalls /\ [][NextInitModule]_vars

\* ======================== direct calls of convertString / parseVueProps
MaxTypes == 2

RawStrings ==
    { <<>>,
      <<"4", "2">>,
      <<"-", "7">>,
      <<"4", ".", "5">>,
      <<"1", "2", "p", "x">>,
      <<"a", "b", "c">>,
      <<"t", "r", "u", "e">>,
      <<"n", "u", "l", "l">>,
      <<"\"", "h", "i", "\"">>,
      <<"[", "1", ",", "2", "]">>,
      <<"{", "}">>,
      <<"{", "\"", "a", "\"", ":", "1", "}">>,
      <<"2", "0", "2", "1", "1", "1", "2", "6">>,
      <<"2", "0", "2", "1", "-", "1", "1", "-", "2", "6", "T", "0", "0", ":", "0", "0",
        ":", "0", "0", ".", "0", "0", "0", "Z">>,
      <<"2", "0", "2", "1", "-", "1", "3", "-", "4", "0">> }

TypeLists == SeqsUpTo(TypeTags, MaxTypes)

PropDefShapes ==
    {PFn(t) : t \in TypeTags} \cup {PArr(ts) : ts \in TypeLists}
        \cup {PObj(t) : t \in TypeTags \cup {"none", "TypeList"}} \cup {PNull, PName}

\* the data attributes of a marker element besides the name-bearing one
Datasets ==
    {[title |-> <<"H", "i">>]} \cup {[title |-> <<"H", "i">>, count |-> r] : r \in RawStrings}

\* the components a marker resolves to: one that declares no props and the
\* one that declares TypedPropDefs
MountedComponents == {V(<<"component">>), V(<<"typed">>)}

\* const { vueComponent, ...props } = $el.dataset: the data attributes of a
\* marker besides data-vue-component; data-title="" is an empty string
MarkerDatasets ==
    { [title |-> <<"H", "i">>, count |-> <<"4", "2">>],
      [title |-> <<>>, count |-> <<"4", "2">>],
      [title |-> <<"H", "i">>, extra |-> <<"a", "b", "c">>],
      [count |-> <<"a", "b", "c">>],
      [date |-> <<"2", "0", "2", "1", "1", "1", "2", "6">>] }

\* the sources and prefixes getDataset is called with
Chars(w) ==
    CASE w = "vueTitle" -> <<"v", "u", "e", "T", "i", "t", "l", "e">>
      [] w = "vuexTitle" -> <<"v", "u", "e", "x", "T", "i", "t", "l", "e">>
      [] w = "vueCount" -> <<"v", "u", "e", "C", "o", "u", "n", "t">>
      [] w = "vue" -> <<"v", "u", "e">>
      [] w = "vue." -> <<"v", "u", "e", ".">>
      [] w = "other" -> <<"o", "t", "h", "e", "r">>
      [] w = "Hello" -> <<"H", "e", "l", "l", "o">>
      [] w = "42" -> <<"4", "2">>
      [] w = "[1,2]" -> <<"[", "1", ",", "2", "]">>
      [] w = "x" -> <<"x">>
      [] w = "(" -> <<"(">>
      [] OTHER -> <<>>

Entry(key, value) == <<Chars(key), Chars(value)>>
Object(entries) == [t |-> "object", entries |-> entries]

DatasetSources ==
    { Object(<<>>),
      Object(<<Entry("vueTitle", "Hello"), Entry("other", "x")>>),
      Object(<<Entry("vueCount", "42"), Entry("vue", "x"), Entry("vueTitle", "[1,2]")>>),
      Object(<<Entry("vuexTitle", "Hello"), Entry("other", "")>>),
      [t |-> "other"] }

Prefixes == {Chars(w) : w \in {"", "vue", "vue.", "other", "x", "("}}

InitCoerce ==
    /\ \/ \E str \in RawStrings, ts \in {TypeArr(l) : l \in TypeLists} \cup {NoTypes} :
             coerce = [CoerceIdle EXCEPT !.fn = "convertString", !.str = str, !.types = ts]
       \/ \E sh \in PropDefShapes, props \in Datasets :
             coerce = [CoerceIdle EXCEPT !.fn = "parseVueProps",
                          !.propDefs = << <<"title", PFn("String")>>, <<"count", sh>> >>,
                          !.props = props]
       \/ \E obj \in DatasetSources, prefix \in Prefixes :
             coerce = [CoerceIdle EXCEPT !.fn = "getDataset", !.obj = obj, !.str = prefix]
       \/ \E comp \in MountedComponents, props \in MarkerDatasets :
             coerce = [CoerceIdle EXCEPT !.fn = "vueMount", !.comp = comp, !.props = props]
    /\ ldi = LdiIdle
    /\ DocQuiet
    /\ AppQuiet
    /\ LibQuiet

ConvertStringCall ==
    /\ coerce.fn = "convertString" /\ ~coerce.done
    /\ LET r == convertString(coerce.str, coerce.types)
       IN coerce' = [coerce EXCEPT !.done = TRUE, !.threw = r.threw, !.out = r.v,
                                   !.tried = r.tried]
    /\ UNCHANGED <<ldi, docVars, libVars, appVars>>

ParseVuePropsCall ==
    /\ coerce.fn = "parseVueProps" /\ ~coerce.done
    /\ LET r == parseVueProps(coerce.propDefs, coerce.props)
       IN coerce' = [coerce EXCEPT !.done = TRUE, !.threw = r.threw, !.out = r.v]
    /\ UNCHANGED <<ldi, docVars, libVars, appVars>>

\* the callback of initVueComponent runs on the resolved component
VueMountCall ==
    /\ coerce.fn = "vueMount" /\ ~coerce.done
    /\ LET r == VueMount(VueCb(1, coerce.props), coerce.comp)
       IN coerce' = [coerce EXCEPT !.done = TRUE, !.threw = r.threw, !.out = r.out]
    /\ UNCHANGED <<ldi, docVars, libVars, appVars>>

GetDatasetCall ==
    /\ coerce.fn = "getDataset" /\ ~coerce.done
    /\ LET r == getDataset(coerce.obj, coerce.str)
       IN coerce' = [coerce EXCEPT !.done = TRUE, !.threw = r.threw, !.out = r.v]
    /\ UNCHANGED <<ldi, docVars, libVars, appVars>>

NextCoerce == ConvertStringCall \/ ParseVuePropsCall \/ VueMountCall \/ GetDatasetCall

SpecCoerce == InitCoerce /\ [][NextCoerce]_vars

\* ============================================== the page and its App
\* the size of a scenario: the marker elements of the page plus the scans
\* made of it (a page of MaxLoad - 2 elements leaves room for two scans)
MaxLoad == 4

\* the implementation registry handed to App.init (index.js): name -> initiator
Dependencies ==
    [installed |-> TRUE,
     vueComponents |->
        [Plain |-> <<"component">>,
         Lazy |-> <<"factory", "promise", "wrapper", "typed">>,
         Failing |-> <<"factory", "reject">>,
         Broken |-> <<"factory", "throw">>,
         Stuck |-> <<"factory", "pending">>],
     components |->
        [Mod |-> <<"module">>,
         LazyMod |-> <<"factory", "promise", "wrapper", "module">>,
         NotClass |-> <<"component">>]]

\* the names a marker element can carry; "Unknown" is in no registry.
\* (Names are not members of Object.prototype, which `in` would also find.)
VueNames == DOMAIN Dependencies.vueComponents \cup {"Unknown"}
ModuleNames == DOMAIN Dependencies.components \cup {"Unknown"}

MarkerData == [title |-> <<"H", "i">>, count |-> <<"4", "2">>]

\* a marker element: kind "vue" carries data-vue-component, kind "module"
\* data-component; live = the marker is still in the document
Marker(kind, name) == [kind |-> kind, name |-> name, data |-> MarkerData, live |-> TRUE]

MarkerElements ==
    {Marker("vue", n) : n \in VueNames} \cup {Marker("module", n) : n \in ModuleNames}

\* the page when the bundle runs (index.js: new App()): the document in a
\* given state of loading, the markers the server rendered, nothing scanned
InitPage(state) ==
    /\ readyState = state
    /\ dclFired = (state = "complete")
    /\ dclListener = FALSE
    /\ readyPromise = "none"
    /\ appPc = "new"
    /\ dependencies = NoDependencies
    /\ dom \in SeqsUpTo(MarkerElements, MaxLoad - 2)
    /\ scans = <<>>
    /\ vueComponents = <<>>
    /\ components = <<>>
    /\ jobs = <<>>
    /\ inTask = FALSE
    /\ ldi = LdiIdle
    /\ coerce = CoerceIdle
    /\ LibQuiet

\* ------------------------------------------------------------ event loop
\* A job is a promise reaction in the microtask queue:
\*   "resume"  continue branch j of scan s after its await
\*   "all"     Promise.all learns that the promise of branch j of scan s settled
\*   "then"    the then-callback of scan s, Promise.all having settled
\*   "app"     continue App.init / App.onPageLoad after its await
\* Tasks (document events, network completions, the bundle's start, the
\* code of other callers) start only when the queue is empty; the jobs run
\* once the synchronous code of the task has ended.
Job(k, s, j) == [k |-> k, s |-> s, j |-> j]
AppJob == Job("app", 0, 0)
Quiescent == jobs = <<>>
NextJob(k) == jobs # <<>> /\ Head(jobs).k = k

\* a value whose settlement waits for the network (a dynamic import)
OnNetwork(v) == IsPromise(v)

\* the jobs a frame gives rise to when it reaches its state f
FrameJobs(f, s, j) ==
    IF Settled(f) THEN <<Job("all", s, j)>>
    ELSE IF f.pc \in {"await1", "await2"} /\ ~OnNetwork(f.awaiting) THEN <<Job("resume", s, j)>>
    ELSE <<>>

\* ------------------------------------------------------------ document
Ready == readyState \in {"interactive", "complete"}

\* the parser finishes: readyState becomes 'interactive'
DocInteractive ==
    /\ Quiescent
    /\ readyState = "loading"
    /\ readyState' = "interactive"
    /\ UNCHANGED <<dclFired, dclListener, readyPromise, appVars, ldi, coerce, libVars>>

\* DOMContentLoaded is dispatched; a registered listener resolves the
\* promise of domReadyPromise, on which onPageLoad waits
DocContentLoaded ==
    /\ Quiescent
    /\ readyState = "interactive" /\ ~dclFired
    /\ dclFired' = TRUE
    /\ readyPromise' = IF dclListener THEN "resolved" ELSE readyPromise
    /\ jobs' = IF dclListener THEN <<AppJob>> ELSE jobs
    /\ UNCHANGED <<readyState, dclListener, appPc, dependencies, dom, scans, vueComponents,
                   components, inTask, ldi, coerce, libVars>>

DocComplete ==
    /\ Quiescent
    /\ readyState = "interactive" /\ dclFired
    /\ readyState' = "complete"
    /\ UNCHANGED <<dclFired, dclListener, readyPromise, appVars, ldi, coerce, libVars>>

\* domReady that only listens for the event, whatever the readyState
domReadyListensOnly(state) == [promise |-> "pending", listener |-> TRUE]

\* domReady that calls fn whatever the readyState
domReadyAtOnce(state) == [promise |-> "resolved", listener |-> FALSE]

\* domReady(fn) with fn the resolve of domReadyPromise: [promise, listener]
domReady(state) ==
    IF state = "interactive" \/ state = "complete"
    THEN [promise |-> "resolved", listener |-> FALSE]
    ELSE [promise |-> "pending", listener |-> TRUE]

domReadyPromise(state) == domReady(state)

\* -------------------------------------------------------------- scanning
\* getElement(container): the container is document.body ("body") or a
\* selector that matches nothing ("missing")
getElement(container) == container = "body"

\* the positions in dom of the elements querySelectorAll(selector) returns
RECURSIVE Matching(_, _, _)
Matching(d, kind, i) ==
    IF i > Len(d) THEN <<>>
    ELSE IF d[i].kind = kind /\ d[i].live THEN <<i>> \o Matching(d, kind, i + 1)
    ELSE Matching(d, kind, i + 1)

\* $map(container, selector, fn) before fn is applied: [found, nodes]
map(container, kind) ==
    IF getElement(container) THEN [found |-> TRUE, nodes |-> Matching(dom, kind, 1)]
    ELSE [found |-> FALSE, nodes |-> <<>>]

\* Promise.resolve()
Resolved == Frame("resolved", Undefined, Undefined, NoCb, <<>>, "none")

initVueComponent(el, vueComponent, props) ==
    IF vueComponent \in DOMAIN dependencies.vueComponents
    THEN loadDynamicImport(V(dependencies.vueComponents[vueComponent]), VueCb(el, props))
    ELSE Resolved

initModule(initiator, el, init) == initializeModule(initiator, el, init)

initComponent(component, el) ==
    IF component \in DOMAIN dependencies.components
    THEN initModule(V(dependencies.components[component]), el, "true")
    ELSE Resolved

\* the promises of one scan, one branch per matched element; counted = the
\* branch's fulfilment has reached Promise.all
Branches(kind, nodes) ==
    [j \in 1..Len(nodes) |->
        [el |-> nodes[j],
         f |-> IF kind = "vue"
               THEN initVueComponent(nodes[j], dom[nodes[j]].name, dom[nodes[j]].data)
               ELSE initComponent(dom[nodes[j]].name, nodes[j]),
         counted |-> FALSE]]

\* initVueComponents(container) / initComponents(container) up to the return
\* of Promise.all(promises).then(...): all is the state of Promise.all's
\* promise, status that of the returned one.  Promise.all(null) is rejected,
\* Promise.all([]) fulfilled.
NewScan(kind, origin, container) ==
    LET m == map(container, kind)
    IN [kind |-> kind, origin |-> origin, found |-> m.found,
        all |-> IF ~m.found THEN "rejected" ELSE IF m.nodes = <<>> THEN "fulfilled" ELSE "pending",
        status |-> "pending",
        branches |-> Branches(kind, m.nodes),
        before |-> <<>>, aggregate |-> <<>>]

\* the jobs queued while the scan is set up: the continuations of the
\* branches in element order, then Promise.all's reactions to the promises
\* that are settled already
RECURSIVE JobsOf(_, _, _, _)
JobsOf(sc, s, j, k) ==
    IF j > Len(sc.branches) THEN <<>>
    ELSE (IF FrameJobs(sc.branches[j].f, s, j) # <<>> /\ FrameJobs(sc.branches[j].f, s, j)[1].k = k
          THEN FrameJobs(sc.branches[j].f, s, j) ELSE <<>>) \o JobsOf(sc, s, j + 1, k)

ScanJobs(sc, s) ==
    JobsOf(sc, s, 1, "resume") \o JobsOf(sc, s, 1, "all")
        \o (IF sc.all # "pending" THEN <<Job("then", s, 0)>> ELSE <<>>)

initVueComponents(origin, container) == NewScan("vue", origin, container)
initComponents(origin, container) == NewScan("module", origin, container)

\* the scan joins scans; its jobs join the queue q
StartScan(sc, q) ==
    /\ scans' = Append(scans, sc)
    /\ jobs' = q \o ScanJobs(sc, Len(scans) + 1)

\* ---------------------------------------------------------------- App
\* app.init(dependencies): initDependencies runs to its end, init suspends
AppInit ==
    /\ Quiescent
    /\ appPc = "new"
    /\ dependencies' = Dependencies
    /\ appPc' = "awaitDeps"
    /\ jobs' = <<AppJob>>
    /\ inTask' = TRUE
    /\ UNCHANGED <<dom, scans, vueComponents, components, docVars, libVars, ldi, coerce>>

\* init resumes and calls onPageLoad, which suspends on domReadyPromise()
AppOnPageLoad ==
    /\ NextJob("app")
    /\ appPc = "awaitDeps"
    /\ LET r == domReadyPromise(readyState)
       IN /\ readyPromise' = r.promise
          /\ dclListener' = r.listener
          /\ jobs' = IF r.promise = "resolved" THEN Append(Tail(jobs), AppJob) ELSE Tail(jobs)
    /\ appPc' = "awaitReady"
    /\ inTask' = FALSE
    /\ UNCHANGED <<readyState, dclFired, dependencies, dom, scans, vueComponents,
                   components, ldi, coerce, libVars>>

\* onPageLoad resumes and calls initVueComponents(document.body)
AppScan ==
    /\ NextJob("app")
    /\ appPc = "awaitReady"
    /\ StartScan(initVueComponents("init", "body"), Tail(jobs))
    /\ appPc' = "awaitScan"
    /\ inTask' = FALSE
    /\ UNCHANGED <<dependencies, dom, vueComponents, components, docVars, libVars, ldi, coerce>>

InitScan == CHOOSE s \in 1..Len(scans) : scans[s].origin = "init"

\* the scan of onPageLoad has settled: init resolves, or rejects with it
AppSettle ==
    /\ NextJob("app")
    /\ appPc = "awaitScan"
    /\ appPc' = IF scans[InitScan].status = "resolved" THEN "done" ELSE "failed"
    /\ jobs' = Tail(jobs)
    /\ inTask' = FALSE
    /\ UNCHANGED <<dependencies, dom, scans, vueComponents, components, docVars, libVars, ldi, coerce>>

\* the task of some other code (or the bundle's own, after app.init) calls
\* app.initVueComponents / app.initComponents; before the dependencies are
\* installed the call throws and changes nothing
CallerScan(kind, container) ==
    /\ Quiescent \/ inTask
    /\ dependencies.installed
    /\ Len(dom) + Len(scans) < MaxLoad
    /\ inTask' = TRUE
    /\ StartScan(IF kind = "vue" THEN initVueComponents("caller", container)
                 ELSE initComponents("caller", container), jobs)
    /\ UNCHANGED <<appPc, dependencies, dom, vueComponents, components, docVars, libVars, ldi, coerce>>

\* new Vue({el, ...}) replaces the marker element by the component's root
Mounted(d, f) ==
    IF f.pc = "resolved" /\ f.result.t = "vue"
    THEN [d EXCEPT ![f.result.el].live = FALSE]
    ELSE d

\* the import awaited by branch j of scan s is settled by the network
NetworkSettle(s, j) ==
    /\ Quiescent
    /\ scans[s].branches[j].f.pc \in {"await1", "await2"}
    /\ OnNetwork(scans[s].branches[j].f.awaiting)
    /\ CanResume(scans[s].branches[j].f)
    /\ jobs' = <<Job("resume", s, j)>>
    /\ UNCHANGED <<appPc, dependencies, dom, scans, vueComponents, components, inTask,
                   docVars, libVars, ldi, coerce>>

\* branch j of scan s continues after its await
BranchResume ==
    /\ NextJob("resume")
    /\ LET s == Head(jobs).s
           j == Head(jobs).j
           f == LdiResume(scans[s].branches[j].f)
       IN /\ scans' = [scans EXCEPT ![s].branches[j].f = f]
          /\ dom' = Mounted(dom, f)
          /\ jobs' = Tail(jobs) \o FrameJobs(f, s, j)
    /\ inTask' = FALSE
    /\ UNCHANGED <<appPc, dependencies, vueComponents, components, docVars, libVars, ldi, coerce>>

AllCounted(sc, j) == \A i \in 1..Len(sc.branches) : i = j \/ sc.branches[i].counted

\* Promise.all reacts to the settled promise of branch j of scan s: it is
\* rejected by the first rejection, fulfilled by the last fulfilment
AllReaction ==
    /\ NextJob("all")
    /\ LET s == Head(jobs).s
           j == Head(jobs).j
           sc == scans[s]
           rejected == sc.branches[j].f.pc = "rejected"
           all == IF sc.all # "pending" THEN sc.all
                  ELSE IF rejected THEN "rejected"
                  ELSE IF AllCounted(sc, j) THEN "fulfilled" ELSE "pending"
       IN /\ scans' = [scans EXCEPT ![s].all = all, ![s].branches[j].counted = ~rejected]
          /\ jobs' = Tail(jobs) \o
                (IF sc.all = "pending" /\ all # "pending" THEN <<Job("then", s, 0)>> ELSE <<>>)
    /\ inTask' = FALSE
    /\ UNCHANGED <<appPc, dependencies, dom, vueComponents, components, docVars, libVars, ldi, coerce>>

Results(sc) == [j \in 1..Len(sc.branches) |-> sc.branches[j].f.result]

\* the concat the other way round: the new components come first
ConcatPrepends(registry, newComponents) == newComponents \o registry

\* the assignment without the concat: the registry is replaced
ConcatReplaces(registry, newComponents) == newComponents

\* this.vueComponents = (this.vueComponents || []).concat(newComponents)
Concat(registry, newComponents) == registry \o newComponents

\* the reaction registered by .then(...): on fulfilment the callback appends
\* and the scan resolves; on rejection the scan rejects
ThenReaction ==
    /\ NextJob("then")
    /\ LET s == Head(jobs).s
           sc == scans[s]
           ok == sc.all = "fulfilled"
           newComponents == Results(sc)
           registry == IF sc.kind = "vue" THEN vueComponents ELSE components
       IN /\ scans' = [scans EXCEPT ![s].status = IF ok THEN "resolved" ELSE "rejected",
                                    ![s].before = IF ok THEN registry ELSE <<>>,
                                    ![s].aggregate = IF ok THEN newComponents ELSE <<>>]
          /\ vueComponents' = IF ok /\ sc.kind = "vue" THEN Concat(vueComponents, newComponents)
                              ELSE vueComponents
          /\ components' = IF ok /\ sc.kind = "module" THEN Concat(components, newComponents)
                           ELSE components
          /\ jobs' = Tail(jobs) \o (IF sc.origin = "init" THEN <<AppJob>> ELSE <<>>)
    /\ inTask' = FALSE
    /\ UNCHANGED <<appPc, dependencies, dom, docVars, libVars, ldi, coerce>>

\* the steps of a scan that the event loop takes
ScanStep ==
    \/ \E s \in 1..Len(scans) : \E j \in 1..Len(scans[s].branches) : NetworkSettle(s, j)
    \/ BranchResume
    \/ AllReaction
    \/ ThenReaction

AppStep == AppInit \/ AppOnPageLoad \/ AppScan \/ AppSettle

\* The bundle runs on a document that has finished loading; other code
\* scans containers through the app as well.
Init == InitPage("complete")

Next ==
    \/ AppStep
    \/ \E kind \in {"vue", "module"}, container \in {"body", "missing"} :
          CallerScan(kind, container)
    \/ ScanStep

Spec == Init /\ [][Next]_vars

\* The bundle runs while the document is still loading; only App.init scans.
InitLoading == InitPage("loading")

NextPage ==
    \/ DocInteractive
    \/ DocContentLoaded
    \/ DocComplete
    \/ AppStep
    \/ ScanStep

SpecPage == InitLoading /\ [][NextPage]_vars

\* index.js calls app.init and the event loop runs the continuations that
\* are ready; the browser dispatches DOMContentLoaded once the document is
\* interactive
FairSpecPage == SpecPage /\ WF_vars(AppStep) /\ WF_vars(DocContentLoaded)

\* =============================== calls of loadJSFile and loadCssFile
MaxCalls == 3

\* the url arguments: two ordinary URLs, the relative URL "__proto__", the
\* empty string and an argument that is no string
UrlArgs == {"a.js", "b.js", ProtoKey, "", NoUrl}

\* The module has been evaluated: both caches are empty.  The document holds
\* the script tag of the running bundle; its head may have no child node.
InitLoader ==
    /\ \E headEmpty \in BOOLEAN : loader = LoaderIdle(headEmpty)
    /\ mod = Module(0, <<>>)
    /\ ldi = LdiIdle
    /\ coerce = CoerceIdle
    /\ DocQuiet
    /\ AppQuiet

LoadJSFileCall ==
    /\ Len(loader.calls) < MaxCalls
    /\ \E url \in UrlArgs, async \in BOOLEAN : loader' = loadJSFile(loader, url, async)
    /\ UNCHANGED <<mod, ldi, coerce, docVars, appVars>>

LoadCssFileCall ==
    /\ Len(loader.calls) < MaxCalls
    /\ \E url \in UrlArgs : loader' = loadCssFile(loader, url)
    /\ UNCHANGED <<mod, ldi, coerce, docVars, appVars>>

\* the load event of an inserted script tag
ScriptLoad ==
    /\ \E i \in 1..Len(loader.scripts) :
          /\ loader.scripts[i].state = "loading"
          /\ loader' = ScriptEvent(loader, i, "loaded")
    /\ UNCHANGED <<mod, ldi, coerce, docVars, appVars>>

\* the error event of an inserted script tag
ScriptError ==
    /\ \E i \in 1..Len(loader.scripts) :
          /\ loader.scripts[i].state = "loading"
          /\ loader' = ScriptEvent(loader, i, "failed")
    /\ UNCHANGED <<mod, ldi, coerce, docVars, appVars>>

NextLoader == LoadJSFileCall \/ LoadCssFileCall \/ ScriptLoad \/ ScriptError

SpecLoader == InitLoader /\ [][NextLoader]_vars

\* ======================================== a module and its element cache
MaxLookups == 3

\* the element a module is bound to: none (the document), the list, its
\* second item, the title at the top of the page
BoundElements == {0, 1, 3, 5}

\* $cache as subclasses declare it, in the order of Object.entries
DeclaredCaches ==
    { <<>>,
      << <<"items", "item">> >>,
      << <<"list", "list">>, <<"heading", "title">>, <<"none", "missing">> >> }

CacheKeys == {"items", "heading"}
Selectors == {"list", "item", "title", "missing"}

\* A module has been constructed; nothing has been looked up yet.
InitModule ==
    /\ \E el \in BoundElements, cache \in DeclaredCaches : mod = Module(el, cache)
    /\ loader = LoaderIdle(FALSE)
    /\ ldi = LdiIdle
    /\ coerce = CoerceIdle
    /\ DocQuiet
    /\ AppQuiet

\* module.init()
ModuleInitCall ==
    /\ mod.n < MaxLookups
    /\ mod' = [ModuleInit(mod) EXCEPT !.n = @ + 1, !.last = [NoCall EXCEPT !.fn = "init"],
                                      !.again = mod.last.fn = "init"]
    /\ UNCHANGED <<loader, ldi, coerce, docVars, appVars>>

\* module.addToCache(key, selector, keepArray)
AddToCacheCall ==
    /\ mod.n < MaxLookups
    /\ \E key \in CacheKeys, selector \in Selectors, keepArray \in BOOLEAN :
          mod' = [addToCache(mod, key, selector, keepArray) EXCEPT
                     !.n = @ + 1,
                     !.again = FALSE,
                     !.last = [fn |-> "addToCache", key |-> key, selector |-> selector,
                               keepArray |-> keepArray]]
    /\ UNCHANGED <<loader, ldi, coerce, docVars, appVars>>

NextModule == ModuleInitCall \/ AddToCacheCall

SpecModule == InitModule /\ [][NextModule]_vars

\* ================================================================ claims

\* C1: the promise returned by loadDynamicImport never rejects, whatever
\* the initiator (a factory that throws, a promise that rejects, ...).
C1_NeverRejects == ldi.f.pc # "rejected"

\* C2: in a scan over a container that exists, a branch that fails never
\* aborts its siblings: the scan promise is not rejected, and when it
\* resolves the results of all branches have been appended.
C2_FailureNeverAbortsScan ==
    \A s \in 1..Len(scans) :
        scans[s].found =>
            /\ scans[s].status # "rejected"
            /\ scans[s].status = "resolved" => scans[s].aggregate = Results(scans[s])

\* C3: a scan of a container with no marker settles with an empty aggregate
\* and leaves the registry's content as it was; a scan of N markers of which
\* exactly one carries a name absent from the registry (the others naming
\* implementations that resolve and mount) settles with exactly N-1 mounted
\* instances in the aggregate, which is appended to the registry.
RegistryOf(kind) == IF kind = "vue" THEN vueComponents ELSE components
NamesOf(kind) == IF kind = "vue" THEN DOMAIN Dependencies.vueComponents
                 ELSE DOMAIN Dependencies.components
ChainOf(kind, name) == IF kind = "vue" THEN Dependencies.vueComponents[name]
                       ELSE Dependencies.components[name]
\* the name is registered and its initiator yields an implementation to mount
Mountable(kind, name) ==
    /\ name \in NamesOf(kind)
    /\ LET c == ChainOf(kind, name)
       IN c[Len(c)] \in (IF kind = "vue" THEN {"component", "typed"} ELSE {"module"})
IsInstance(v) == v.t \in {"vue", "module"}
AbsentBranches(sc) == {j \in 1..Len(sc.branches) : dom[sc.branches[j].el].name \notin NamesOf(sc.kind)}
OneAbsentRestMountable(sc) ==
    /\ Cardinality(AbsentBranches(sc)) = 1
    /\ \A j \in 1..Len(sc.branches) :
          j \in AbsentBranches(sc) \/ Mountable(sc.kind, dom[sc.branches[j].el].name)
InstancesIn(agg) == {j \in 1..Len(agg) : IsInstance(agg[j])}
Appended(sc) ==
    LET reg == RegistryOf(sc.kind)
        n == Len(sc.before) + Len(sc.aggregate)
    IN Len(reg) >= n /\ SubSeq(reg, 1, n) = sc.before \o sc.aggregate

C4_FanIn ==
    \A s \in 1..Len(scans) :
        scans[s].status # "pending" =>
            \A j \in 1..Len(scans[s].branches) : Settled(scans[s].branches[j].f)

\* C5: whenever an error was raised during a call of loadDynamicImport that
\* resolves, the value resolved to is undefined (never a partly resolved
\* value).
C5_FailureYieldsAbsent ==
    (ldi.f.pc = "resolved" /\ ldi.f.err # "none") => ldi.f.result = Undefined

\* C6: a call of loadDynamicImport performs at most one factory invocation,
\* then at most one default unwrap, then at most one more invocation, in
\* that order, and settles when no awaited promise stays pending.
Operations(log) == SelectSeq(log, LAMBDA x : x # "cb")
BoundedOperations ==
    { <<>>, <<"invoke">>, <<"unwrap">>, <<"invoke", "unwrap">>, <<"unwrap", "invoke">>,
      <<"invoke", "invoke">>, <<"invoke", "unwrap", "invoke">> }
NeverPending(v) == ~IsVal(v) \/ \A i \in 1..Len(v.c) : v.c[i] # "pending"

C6_BoundedResolution ==
    /\ [](Operations(ldi.f.log) \in BoundedOperations)
    /\ (ldi.f.pc = "idle" /\ ldi.gen >= 1 /\ NeverPending(ldi.init))
          ~> (ldi.f.pc \in {"resolved", "rejected"})

\* a resolution that stopped with a factory still in hand, after
\* invoke, unwrap, invoke
C6_Witness ==
    /\ ldi.f.pc = "resolved" /\ ldi.f.err = "none"
    /\ Operations(ldi.f.log) = <<"invoke", "unwrap", "invoke">>
    /\ IsPlainFunction(ldi.f.result)

\* C7: resolving, without callback, a value that is no function, no
\* promise and has no default member returns that value, invoking nothing;
\* resolving the result again returns it again.
Concrete(v) == IsVal(v) /\ v.c \in {<<"component">>, <<"typed">>, <<"undefined">>}

C7_Idempotent ==
    (ldi.gen >= 1 /\ Concrete(ldi.init) /\ ldi.f.cb.k = "none") =>
        /\ ldi.f.pc \in {"idle", "await1", "await2", "resolved"}
        /\ ldi.f.log = <<>>
        /\ ldi.f.pc = "resolved" => ldi.f.result = ldi.init

C7_Witness ==
    /\ ldi.gen = 2 /\ ldi.f.pc = "resolved" /\ ldi.f.cb.k = "none"
    /\ Concrete(ldi.first) /\ ldi.first # Undefined
    /\ ldi.f.result = ldi.first

\* C8: convertString returns the value of the first candidate type that
\* yields a value of that type (a number, NaN included, for Number; a
\* string for String; ...) and tries no later candidate.
OfType(v, type) ==
    CASE type = "Number" -> v.t \in {"number", "NaN"}
      [] type = "String" -> v.t = "string"
      [] type = "Boolean" -> v.t = "boolean"
      [] type = "Date" -> v.t = "date"
      [] type = "Array" -> v.t = "array"
      [] type = "Object" -> v.t \in {"object", "array"}
      [] OTHER -> FALSE
Produces(str, type) == OfType(Candidate(str, type, Undefined), type)

C8_FirstMatchWins ==
    (coerce.fn = "convertString" /\ coerce.done) =>
        \A i \in 1..Len(coerce.types.items) :
            (/\ Produces(coerce.str, coerce.types.items[i])
             /\ \A k \in 1..(i - 1) : ~Produces(coerce.str, coerce.types.items[k]))
            => /\ coerce.out = Candidate(coerce.str, coerce.types.items[i], Undefined)
               /\ coerce.tried = i

DeclaredKeys(propDefs) == {propDefs[i][1] : i \in 1..Len(propDefs)}
Declaration(propDefs, key) == propDefs[CHOOSE i \in 1..Len(propDefs) : propDefs[i][1] = key][2]

C10_ReadinessGate ==
    /\ scans # <<>> => (Ready /\ dependencies.installed)
    /\ appPc \in {"awaitScan", "done", "failed"} => Ready
    /\ ~Ready => (vueComponents = <<>> /\ \A i \in 1..Len(dom) : dom[i].live)

\* App.init was called while the document was loading, waited for
\* DOMContentLoaded, and its scan has mounted a component
C10_Witness ==
    /\ dclListener /\ dclFired
    /\ \E s \in 1..Len(scans) :
          /\ scans[s].origin = "init"
          /\ \E j \in 1..Len(scans[s].branches) :
                scans[s].branches[j].f.pc = "resolved" /\ IsInstance(scans[s].branches[j].f.result)

\* C11: after any sequence of loadJSFile and loadCssFile calls, at most one
\* script tag and at most one stylesheet link has been inserted per URL,
\* every repeated loadJSFile(url) returned the promise the first call
\* returned, and no step removes a URL from either cache.
JsCalls == {i \in 1..Len(loader.calls) : loader.calls[i].fn = "js" /\ UrlOk(loader.calls[i].url)}
ScriptTagsFor(url) == {i \in 1..Len(loader.scripts) : loader.scripts[i].url = url}
LinksFor(url) == {i \in 1..Len(loader.links) : loader.links[i] = url}

Deduplicated ==
    /\ \A url \in UrlArgs :
          Cardinality(ScriptTagsFor(url)) <= 1 /\ Cardinality(LinksFor(url)) <= 1
    /\ \A i \in JsCalls, j \in JsCalls :
          loader.calls[i].url = loader.calls[j].url => loader.calls[i].ret = loader.calls[j].ret
CacheGrows ==
    /\ DOMAIN loader.js \subseteq DOMAIN loader'.js
    /\ \A i \in 1..Len(loader.css) : CssCached(loader', loader.css[i])

C11_LoadCacheDedup == []Deduplicated /\ [][CacheGrows]_vars

\* C17: the promise loadJSFile returns never rejects, whatever the url
\* argument and whatever happens to the script: it is resolved with true
\* once the script tag of that url has fired load, with false once it has
\* fired error.
AllJsCalls == {i \in 1..Len(loader.calls) : loader.calls[i].fn = "js"}
TagOf(i) == loader.scripts[loader.calls[i].ret.p]

BranchesOf(sc, e) == {j \in 1..Len(sc.branches) : sc.branches[j].el = e}
InstancesOf(registry, e) ==
    {i \in 1..Len(registry) : IsInstance(registry[i]) /\ registry[i].el = e}

C12_MarkersConsumedOnce ==
    /\ \A s \in 1..Len(scans) : \A e \in 1..Len(dom) :
          Cardinality(BranchesOf(scans[s], e)) <= 1
    /\ \A e \in 1..Len(dom) :
          Cardinality(InstancesOf(vueComponents, e)) + Cardinality(InstancesOf(components, e)) <= 1

\* C13: when a branch of a scan never settles, the instances the other
\* branches of that scan produced end up in the scan's aggregate and in the
\* registry: once the event loop has nothing left to run for the scans made,
\* every such instance is retained.
NeverSettles(f) == f.pc \in {"await1", "await2"} /\ ~NeverPending(f.awaiting)
HasBranch(s, j) == s <= Len(scans) /\ j <= Len(scans[s].branches)
ProducedBesideStuck(s, j) ==
    /\ HasBranch(s, j)
    /\ scans[s].branches[j].f.pc = "resolved" /\ IsInstance(scans[s].branches[j].f.result)
    /\ \E k \in 1..Len(scans[s].branches) : NeverSettles(scans[s].branches[k].f)
Retained(s, j) ==
    /\ HasBranch(s, j)
    /\ Len(scans[s].aggregate) >= j
    /\ scans[s].aggregate[j] = scans[s].branches[j].f.result
    /\ Appended(scans[s])

\* the event loop has run dry: no job is queued and no awaited import can
\* still be settled by the network, so what the scans made so far have not
\* delivered they never will
RunDry == ~ENABLED ScanStep /\ ~ENABLED AppStep

C13_StuckBranchStallsOnlyItself ==
    RunDry =>
        \A s \in 1..Len(scans) : \A j \in 1..Len(scans[s].branches) :
            ProducedBesideStuck(s, j) => Retained(s, j)

\* C14: each addToCache(key, selector, keepArray) looks the selector up below
\* the module's bound element (in the whole document when unbound) and
\* stores under key the single element when exactly one matches and
\* keepArray is not set, the ordered sequence of all matches when several
\* match or keepArray is set, and changes no entry when nothing matches;
\* the entries under other keys stay as they were.  init() does so for every
\* declared entry with keepArray not set.
ParentOf == [n \in 1..Len(PageNodes) |-> PageNodes[n].parent]
RECURSIVE Climb(_, _)
Climb(S, k) == IF k = 0 THEN S ELSE Climb(S \cup ({ParentOf[x] : x \in S} \ {0}), k - 1)
AncestorsOf(n) == Climb({ParentOf[n]} \ {0}, Len(PageNodes))
Below(n, el) == el = 0 \/ el \in AncestorsOf(n)
MatchSet(el, selector) == {n \in 1..Len(PageNodes) : PageNodes[n].cls = selector /\ Below(n, el)}
InOrder(items, S) ==
    /\ Len(items) = Cardinality(S)
    /\ \A i \in 1..Len(items) : items[i] \in S
    /\ \A i \in 1..(Len(items) - 1) : items[i] < items[i + 1]

\* what is under key after looking selector up
Stored(before, after, el, key, selector, keepArray) ==
    LET S == MatchSet(el, selector)
    IN /\ S = {} =>
              /\ key \in DOMAIN after <=> key \in DOMAIN before
              /\ key \in DOMAIN before => after[key] = before[key]
       /\ (Cardinality(S) = 1 /\ ~keepArray) =>
              /\ key \in DOMAIN after
              /\ after[key].t = "element" /\ after[key].n \in S
       /\ (Cardinality(S) > 1 \/ (keepArray /\ S # {})) =>
              /\ key \in DOMAIN after
              /\ after[key].t = "array" /\ InOrder(after[key].items, S)

\* the entries under the keys not looked up are as before
OthersKept(before, after, keys) ==
    /\ DOMAIN after \ keys = DOMAIN before \ keys
    /\ \A k \in DOMAIN before \ keys : after[k] = before[k]

CacheKeysOf(cache) == {cache[i][1] : i \in 1..Len(cache)}

C14_Lookup ==
    /\ mod'.last.fn = "addToCache" /\ mod'.n = mod.n + 1 =>
          /\ Stored(mod.elements, mod'.elements, mod.el,
                    mod'.last.key, mod'.last.selector, mod'.last.keepArray)
          /\ OthersKept(mod.elements, mod'.elements, {mod'.last.key})
    /\ mod'.last.fn = "init" /\ mod'.n = mod.n + 1 =>
          /\ \A i \in 1..Len(mod.cache) :
                Stored(mod.elements, mod'.elements, mod.el,
                       mod.cache[i][1], mod.cache[i][2], FALSE)
          /\ OthersKept(mod.elements, mod'.elements, CacheKeysOf(mod.cache))

C14_ElementLookupCache == [][C14_Lookup]_vars

\* a bound module holds a single element under one key and a sequence of two
\* under another, and its last lookup matched nothing
C14_Witness ==
    /\ mod.el # 0
    /\ mod.last.fn = "addToCache" /\ ~mod.last.keepArray
    /\ MatchSet(mod.el, mod.last.selector) = {}
    /\ DOMAIN mod.elements = {"items", "heading"}
    /\ mod.elements["heading"].t = "element"
    /\ mod.elements["items"].t = "array" /\ Len(mod.elements["items"].items) = 2

\* C15: every data attribute of a marker besides the name-bearing one is
\* passed to the mounted component under its own key: as the raw string when
\* the component declares no parameter types, converted by convertString
\* according to the declaration when it declares the key.
DeclaredProps(comp) == IF comp = V(<<"typed">>) THEN TypedPropDefs ELSE <<>>

PassedAs(comp, key, raw) ==
    IF key \in DeclaredKeys(DeclaredProps(comp))
    THEN convertString(raw, RequestedTypes(Declaration(DeclaredProps(comp), key))).v
    ELSE raw

C15_AttributePassThrough ==
    (coerce.fn = "vueMount" /\ coerce.done) =>
        /\ ~coerce.threw
        /\ DOMAIN coerce.out.props = DOMAIN coerce.props
        /\ \A k \in DOMAIN coerce.props :
              coerce.out.props[k] = PassedAs(coerce.comp, k, coerce.props[k])

\* C16: for a non-empty prefix getDataset raises no error and returns
\* exactly the entries whose key starts with the prefix and is not empty
\* once the prefix is stripped, each under the stripped key with its first
\* character lower-cased; the value is the JSON-decoded attribute, or the
\* attribute verbatim when it does not decode.
StartsWith(key, prefix) ==
    Len(key) >= Len(prefix) /\ SubSeq(key, 1, Len(prefix)) = prefix
Stripped(key, prefix) ==
    LET rest == SubSeq(key, Len(prefix) + 1, Len(key))
    IN <<toLowerCase(rest[1])>> \o SubSeq(rest, 2, Len(rest))
Kept(entries, prefix) ==
    {i \in 1..Len(entries) : StartsWith(entries[i][1], prefix) /\ Len(entries[i][1]) > Len(prefix)}
EntriesOf(obj) == IF obj.t = "object" THEN obj.entries ELSE <<>>

C16_DatasetWithPrefix ==
    (coerce.fn = "getDataset" /\ coerce.done /\ coerce.str # <<>>) =>
        LET entries == EntriesOf(coerce.obj)
            kept == Kept(entries, coerce.str)
        IN /\ ~coerce.threw
           /\ DOMAIN coerce.out = {Stripped(entries[i][1], coerce.str) : i \in kept}
           /\ \A i \in kept :
                 coerce.out[Stripped(entries[i][1], coerce.str)] =
                    IF JsonParse(entries[i][2]).ok THEN JsonParse(entries[i][2]).v
                    ELSE Str(entries[i][2])

\* C18: when a scan resolves, the registry of its marker kind becomes its
\* value just before followed by the scan's aggregate, and the registry of
\* the other kind stays as it was; in every step each registry keeps its
\* earlier entries in place, and the dependencies, once installed, do not
\* change.
IsPrefix(a, b) == Len(a) <= Len(b) /\ SubSeq(b, 1, Len(a)) = a

ResolvedNow(s) == scans[s].status = "pending" /\ scans'[s].status = "resolved"

C18_Append ==
    /\ \A s \in 1..Len(scans) :
          ResolvedNow(s) =>
             IF scans[s].kind = "vue"
             THEN /\ vueComponents' = vueComponents \o scans'[s].aggregate
                  /\ components' = components
             ELSE /\ components' = components \o scans'[s].aggregate
                  /\ vueComponents' = vueComponents
    /\ IsPrefix(vueComponents, vueComponents')
    /\ IsPrefix(components, components')
    /\ dependencies.installed => dependencies' = dependencies

C18_RegistryAppend == [][C18_Append]_vars

\* a scan has resolved with instances of its own onto a registry that held
\* an instance already, while the other registry holds one too
C18_Witness ==
    \E s \in 1..Len(scans) :
        /\ scans[s].status = "resolved"
        /\ \E i \in 1..Len(scans[s].before) : IsInstance(scans[s].before[i])
        /\ \E i \in 1..Len(scans[s].aggregate) : IsInstance(scans[s].aggregate[i])
        /\ \E i \in 1..Len(IF scans[s].kind = "vue" THEN components ELSE vueComponents) :
              IsInstance((IF scans[s].kind = "vue" THEN components ELSE vueComponents)[i])

\* C19: for a non-empty candidate list convertString returns nothing (null
\* or undefined) or a value of one of the listed types; when the decode of
\* the last candidate, a structured one, fails and no earlier candidate
\* produced a value of its type, it returns nothing.
Absent(v) == v = Undefined \/ v = Null
Structured(type) == type \in {"Boolean", "Array", "Object"}

C19_ResultOfListedType ==
    (coerce.fn = "convertString" /\ coerce.done /\ coerce.types.arr
        /\ coerce.types.items # <<>>) =>
        LET types == coerce.types.items
        IN /\ ~coerce.threw
           /\ Absent(coerce.out) \/ \E i \in 1..Len(types) : OfType(coerce.out, types[i])
           /\ (/\ Structured(types[Len(types)])
               /\ ~JsonParse(coerce.str).ok
               /\ \A i \in 1..(Len(types) - 1) : ~Produces(coerce.str, types[i]))
              => Absent(coerce.out)

\* C20: a declared parameter whose declaration carries no recognizable type
\* (an object without a type field, null) receives the raw attribute string
\* itself.
Untyped(propDef) == propDef \in {PObj("none"), PNull}

C20_UntypedGetsRawString ==
    (coerce.fn = "parseVueProps" /\ coerce.done) =>
        \A i \in 1..Len(coerce.propDefs) :
            (Untyped(coerce.propDefs[i][2]) /\ HasProp(coerce.props, coerce.propDefs[i][1])) =>
                /\ ~coerce.threw
                /\ coerce.propDefs[i][1] \in DOMAIN coerce.out
                /\ coerce.out[coerce.propDefs[i][1]] = Str(coerce.props[coerce.propDefs[i][1]])

\* C21: init() called again on a module straight after init() leaves
\* $elements as the first call left it, so that any number of calls in a row
\* leaves what one call leaves.
C21_InitAgain == (mod'.again /\ mod'.n = mod.n + 1) => mod'.elements = mod.elements

C21_InitIdempotent == [][C21_InitAgain]_vars

\* init() has run twice in a row on a bound module and the cache holds a
\* single element and a sequence of elements
C21_Witness ==
    /\ mod.again /\ mod.el # 0
    /\ \E k \in DOMAIN mod.elements : mod.elements[k].t = "element"
    /\ \E k \in DOMAIN mod.elements :
          mod.elements[k].t = "array" /\ Len(mod.elements[k].items) > 1

\* C22: when the import of initializeModule resolves to a module class, the
\* callback runs once and the returned promise resolves to one new instance
\* for the given element, whose init has been called once if the flag is
\* true or no boolean and not at all if the flag is false; when the import
\* resolves to nothing, the promise resolves to null.
CallbackRuns(f) == Len(SelectSeq(f.log, LAMBDA x : x = "cb"))
Imported(f) == Settle(f.awaiting)

C22_Mount ==
    (/\ ldi.f.pc = "await2" /\ ldi.f.cb.k = "module"
     /\ ldi'.f.pc # "await2"
     /\ Imported(ldi.f).st = "fulfilled") =>
        /\ Imported(ldi.f).v = V(<<"module">>) =>
              /\ ldi'.f.pc = "resolved"
              /\ CallbackRuns(ldi'.f) = 1
              /\ ldi'.f.result.t = "module"
              /\ ldi'.f.result.el = ldi.f.cb.el
              /\ ldi'.f.result.inits = IF ldi.flag = "false" THEN 0 ELSE 1
        /\ IsNullish(Imported(ldi.f).v) =>
              /\ ldi'.f.pc = "resolved"
              /\ CallbackRuns(ldi'.f) = 1
              /\ ldi'.f.result = Null

ResolvedScans(kind) ==
    {s \in 1..Len(scans) : scans[s].kind = kind /\ scans[s].status = "resolved"}

\* the ways to line up the scans of S
LineUps(S) ==
    {o \in [1..Cardinality(S) -> S] : \A i, j \in 1..Cardinality(S) : o[i] = o[j] => i = j}

\* a scan that resolved earlier found a registry no longer than a later one
InResolutionOrder(o) ==
    \A i, j \in DOMAIN o : i < j => Len(scans[o[i]].before) <= Len(scans[o[j]].before)

RECURSIVE Aggregates(_, _)
Aggregates(o, i) ==
    IF i > Len(o) THEN <<>> ELSE scans[o[i]].aggregate \o Aggregates(o, i + 1)

C23_NoLostUpdate ==
    \A kind \in {"vue", "module"} :
        \E o \in LineUps(ResolvedScans(kind)) :
            InResolutionOrder(o) /\ RegistryOf(kind) = Aggregates(o, 1)

\* two scans of one kind have both resolved with an instance, the one
\* started later first
C23_Witness ==
    \E s, t \in 1..Len(scans) :
        /\ s < t /\ scans[s].kind = scans[t].kind
        /\ scans[s].status = "resolved" /\ scans[t].status = "resolved"
        /\ \E i \in 1..Len(scans[s].aggregate) : IsInstance(scans[s].aggregate[i])
        /\ \E i \in 1..Len(scans[t].aggregate) : IsInstance(scans[t].aggregate[i])
        /\ Len(scans[t].before) < Len(scans[s].before)

\* C24: the promise of domReadyPromise is resolved by the call itself when
\* the document is interactive or complete at the call, and otherwise by the
\* DOMContentLoaded event and by nothing else; once resolved it stays so;
\* and once the document is interactive the page scan of App.init
\* eventually starts.
PageScanStarted == \E s \in 1..Len(scans) : scans[s].origin = "init"

C24_Resolve ==
    /\ (readyPromise = "none" /\ readyPromise' # "none") =>
          (readyPromise' = "resolved" <=> Ready)
    /\ (readyPromise = "pending" /\ readyPromise' # "pending") =>
          (readyPromise' = "resolved" /\ ~dclFired /\ dclFired')
    /\ readyPromise = "resolved" => readyPromise' = "resolved"
    /\ (dclListener /\ ~dclFired /\ dclFired') => readyPromise' = "resolved"

C24_ReadinessLiveness ==
    /\ [][C24_Resolve]_vars
    /\ Ready ~> PageScanStarted

\* App.init was called while the document was loading, DOMContentLoaded has
\* resolved the pending promise and the page scan has started
C24_Witness ==
    /\ dclListener /\ dclFired /\ readyPromise = "resolved"
    /\ PageScanStarted

\* C25: once the script tag of a URL has fired its error event, a later
\* loadJSFile call for that URL inserts no script tag and returns a promise
\* that is resolved with false.
FailedBefore(url) ==
    \E i \in 1..Len(loader.scripts) :
        loader.scripts[i].url = url /\ loader.scripts[i].state = "failed"

C25_Call ==
    (/\ Len(loader'.calls) = Len(loader.calls) + 1
     /\ loader'.calls[Len(loader'.calls)].fn = "js"
     /\ FailedBefore(loader'.calls[Len(loader'.calls)].url)) =>
        /\ loader'.scripts = loader.scripts
        /\ Signal(loader', loader'.calls[Len(loader'.calls)].ret) =
              [st |-> "resolved", v |-> "false"]

C25_FailedLoadNotRetried == [][C25_Call]_vars

====
